---- MODULE Spec2Model ----
(***************************************************************************)
(* State-machine model of the dymola_script context manager of             *)
(* modelicares/exps/simulators.py: one writer object, the two files it     *)
(* writes (the Dymola script and the run log runs.tsv) and the operations  *)
(* a client can perform on it (__init__, __enter__, run, attribute         *)
(* assignment and lookup, __exit__).                                       *)
(*                                                                         *)
(* A Python string that is handed to file.write() is a tuple of string     *)
(* tokens: the literal pieces of the format string and the formatted       *)
(* arguments.  A file is the sequence of the strings written to it.        *)
(* open() and write() may raise IOError (disk full, no permission); a      *)
(* write() on a closed file raises ValueError.                             *)
(***************************************************************************)
EXTENDS Integers, Sequences, FiniteSets, TLC

VARIABLES
    phase,          \* "new": no writer yet; "live": __init__ returned; "failed": __init__ raised
    scope,          \* the with statement: "none" (not entered yet), "in", "out" (left)
    mos_file,       \* content of the script file fname (sequence of written strings)
    run_log_file,   \* content of runs.tsv
    mos_h,          \* state of the script file object: "unset", "open" or "closed"
    run_log_h,      \* state of the run log file object
    closeOrder,     \* history: the file objects closed so far, in order
    n_runs,         \* self.n_runs
    command_,       \* self._command
    options_,       \* self._options (a dict: a function on the keys present)
    results_,       \* self._results
    calls,          \* history: one record per run() call made
    assigned,       \* history: the value the client last gave each option
    raised,         \* exception the last operation ended with ("none" if it returned)
    failures,       \* history: number of IOErrors the environment has raised
    \* examples/ChuaCircuit/sim_and_plot.py
    pc,             \* the statement the example script is at
    RUN,            \* setting: run the simulations? (otherwise, just plot)
    EXPERIMENTS,    \* the experiments gen_experiments() gave
    MODELS,         \* the model names write_script() returned
    dymola,         \* the variable dymola: None or the DymolaInterface
    result_,        \* the variable result
    engine,         \* history: what has been asked of the Dymola interface
    \* dymosim and fmi
    stubs,          \* history: one record per dymosim(...) or fmi(...) call
    \* the list objects given as results
    lists           \* defaults: the default of dymola_script's results parameter;
                    \* passed, caller: a caller's list when passed, and now

writerVars == <<phase, scope, mos_file, run_log_file, mos_h, run_log_h,
                closeOrder, n_runs, command_, options_, results_, calls,
                assigned, raised, failures>>

driverVars == <<pc, RUN, EXPERIMENTS, MODELS, dymola, result_, engine>>

vars == <<phase, scope, mos_file, run_log_file, mos_h, run_log_h, closeOrder,
          n_runs, command_, options_, results_, calls, assigned, raised,
          failures, pc, RUN, EXPERIMENTS, MODELS, dymola, result_, engine,
          stubs, lists>>

----------------------------------------------------------------------------
(* Bounds of the model *)

MaxRuns == 2        \* run() calls per writer
MaxFailures == 1    \* IOErrors raised by the environment
MaxStubs == 2       \* dymosim(...) and fmi(...) calls of a client
MaxPackages == 2    \* entries of a packages argument

----------------------------------------------------------------------------
(* Python values *)

None == "None"

Models == {None, "ChuaCircuit"}

\* params arguments of run(): dicts from parameter name to value
ParamSets == { [k \in {} |-> None], [k \in {"L.L"} |-> "15"] }

\* keyword options of the command (docstring, simulateModel keywords)
OptNames == {"stopTime"}
OptValues == {"250", "2500"}
\* **options arguments of __init__
OptionDicts == { [k \in {} |-> None], [k \in {"stopTime"} |-> "2500"] }

Commands == {"simulateModel"}

\* results arguments; the first is the default of __init__
DefaultResults ==
    <<"dsin.txt", "dslog.txt", "dsres.mat", "dymolalg.txt", "dymosim%x">>
\* the results argument left out of the call
Omitted == "omitted"
ResultLists == { Omitted, <<"dsres.mat">> }

\* the run() arguments used when file operations may fail
IOModels == {"ChuaCircuit"}
IOParamSets == { [k \in {"L.L"} |-> "15"] }

\* os.name of the interpreter
\* arguments with None values: options and parameters to be skipped
ArgOptNames == {"tolerance"}
ArgOptValues == {None, "250"}
ArgOptionDicts == { [k \in {"stopTime"} |-> None],
                    [k \in {"stopTime", "tolerance"} |->
                        IF k = "stopTime" THEN "2500" ELSE None] }
ArgParamSets == { [k \in {"L.L"} |-> None],
                  [k \in {"L.L", "C1.C"} |-> IF k = "L.L" THEN "15" ELSE None] }
ArgResultLists == { <<"dsres.mat">> }

\* attributes a client assigns and reads: an option of the command, a name
\* that looks like one of the writer's own, and one never assigned
AttrCommands == {"simulateModel", "linearizeModel"}
AttrNames == {"stopTime", "command"}
AttrValues == {"2500", "linearizeModel"}
ReadNames == AttrNames \cup {"startTime"}

OsNames == {"posix"}

\* packages: each a path, given by its folder and its last component
MosScript == [dir |-> "/lib", base |-> "init.mos"]
MoFile == [dir |-> "/lib", base |-> "Lib.mo"]
PkgFolder == [dir |-> "/opt", base |-> "VehicleInterfaces"]
Packages == {MosScript, MoFile, PkgFolder}
\* packages arguments; the first is the default of __init__
PackageLists == { <<>>, <<MoFile, MosScript>> }
\* every list of at most MaxPackages packages, any mix and order
AllPackageLists ==
    UNION {[1..n -> Packages] : n \in 0..MaxPackages}

Cwd == "/home/user"
FName == [dir |-> "examples/ChuaCircuit", base |-> "run_sims1.mos"]
Today == "2014-01-01"

----------------------------------------------------------------------------
(* Paths (os.path) and modelicares.util.expand_path *)

PathStr(p) == p.dir \o "/" \o p.base
DirName(p) == p.dir
BaseName(p) == p.base
PathJoin(p, name) == [dir |-> PathStr(p), base |-> name]

\* str.endswith on the last component of a path
Extension(base) ==
    CASE base = "init.mos" -> ".mos"
      [] base = "run_sims1.mos" -> ".mos"
      [] base = "Lib.mo" -> ".mo"
      [] OTHER -> ""
EndsWith(p, ext) == Extension(p.base) = ext

\* expand_path: a relative path is taken from the current directory
ExpandPath(p) == [dir |-> Cwd \o "/" \o p.dir, base |-> p.base]

\* result.replace('%x', exe)
ReplaceExe(result, exe) ==
    IF result = "dymosim%x" THEN "dymosim" \o exe ELSE result

----------------------------------------------------------------------------
(* ParamDict: str() of a dict of names and values *)

RECURSIVE JoinItems(_, _)
JoinItems(d, keys) ==
    IF keys = <<>> THEN <<>>
    ELSE LET k == Head(keys)
             rest == JoinItems(d, Tail(keys))
         IN IF k \in DOMAIN d /\ d[k] # None
            THEN <<k \o "=" \o d[k]>> \o rest
            ELSE rest

RECURSIVE CommaJoin(_)
CommaJoin(items) ==
    IF items = <<>> THEN ""
    ELSE IF Len(items) = 1 THEN items[1]
    ELSE items[1] \o ", " \o CommaJoin(Tail(items))

\* iteration order of the keys of a dict
KeyOrder == <<"problem", "stopTime", "tolerance", "command", "C1.C", "L.L">>

\* str(ParamDict(d)) as a sequence of characters groups: "(", body, ")";
\* the empty string when no item is left
ParamDictStr(d) ==
    LET items == JoinItems(d, KeyOrder)
    IN IF items = <<>> THEN <<>> ELSE <<"(", CommaJoin(items), ")">>

\* s[1:-1]
Slice1(s) == IF Len(s) <= 2 THEN <<>> ELSE SubSeq(s, 2, Len(s) - 1)

\* ''.join of the groups
RECURSIVE Flat(_)
Flat(s) == IF s = <<>> THEN "" ELSE Head(s) \o Flat(Tail(s))

\* dict(options, problem=problem)
WithProblem(options, problem) ==
    [k \in DOMAIN options \cup {"problem"} |->
        IF k = "problem" THEN problem ELSE options[k]]

----------------------------------------------------------------------------
(* File I/O.  An operation is a record [op, f, s]: open, write or close of  *)
(* the file f ("mos" or "run_log"); s is the string written.               *)

Open(f) == [op |-> "open", f |-> f, s |-> <<>>]
Write(f, s) == [op |-> "write", f |-> f, s |-> s]
Close(f) == [op |-> "close", f |-> f, s |-> <<>>]

\* The file system and file objects, as one record
Files == [mos |-> mos_file, run_log |-> run_log_file,
          mos_h |-> mos_h, run_log_h |-> run_log_h,
          closeOrder |-> closeOrder, raised |-> "none", done |-> 0]

Handle(fs, f) == IF f = "mos" THEN fs.mos_h ELSE fs.run_log_h

\* One operation that does not raise
Apply(fs, o) ==
    CASE o.op = "open" ->
            \* open(name, 'w') creates or truncates the file
            IF o.f = "mos" THEN [fs EXCEPT !.mos = <<>>, !.mos_h = "open"]
            ELSE [fs EXCEPT !.run_log = <<>>, !.run_log_h = "open"]
      [] o.op = "write" ->
            IF o.f = "mos" THEN [fs EXCEPT !.mos = Append(@, o.s)]
            ELSE [fs EXCEPT !.run_log = Append(@, o.s)]
      [] OTHER ->
            IF o.f = "mos"
            THEN [fs EXCEPT !.mos_h = "closed", !.closeOrder = Append(@, "mos")]
            ELSE [fs EXCEPT !.run_log_h = "closed",
                            !.closeOrder = Append(@, "run_log")]

\* File operations run as a transaction: when one raises, what the earlier
\* ones of the same call wrote is taken back
RECURSIVE Exec_RollbackFrom(_, _, _, _, _)
Exec_RollbackFrom(fs0, fs, ops, i, failAt) ==
    IF i > Len(ops) THEN fs
    ELSE LET o == ops[i] IN
         IF o.op = "write" /\ Handle(fs, o.f) # "open"
         THEN [fs0 EXCEPT !.raised = "ValueError", !.done = fs.done]
         ELSE IF i = failAt /\ o.op # "close"
         THEN [fs0 EXCEPT !.raised = "IOError", !.done = fs.done]
         ELSE Exec_RollbackFrom(fs0, [Apply(fs, o) EXCEPT !.done = i], ops,
                                i + 1, failAt)

Exec_Rollback(fs, ops, i, failAt) == Exec_RollbackFrom(fs, fs, ops, i, failAt)

\* An operation the environment fails is attempted again, and goes through
RECURSIVE Exec_Retry(_, _, _, _)
Exec_Retry(fs, ops, i, failAt) ==
    IF i > Len(ops) THEN fs
    ELSE LET o == ops[i] IN
         IF o.op = "write" /\ Handle(fs, o.f) # "open"
         THEN [fs EXCEPT !.raised = "ValueError"]
         ELSE Exec_Retry([Apply(fs, o) EXCEPT !.done = i], ops, i + 1, failAt)

\* The operations ops[i..] in order.  Operation number failAt raises IOError
\* (0: the environment lets every operation through); a write on a file
\* object that is closed raises ValueError.  Whatever raises ends the
\* sequence: nothing after it is executed.
RECURSIVE Exec(_, _, _, _)
Exec(fs, ops, i, failAt) ==
    IF i > Len(ops) THEN fs
    ELSE LET o == ops[i] IN
         IF o.op = "write" /\ Handle(fs, o.f) # "open"
         THEN [fs EXCEPT !.raised = "ValueError"]
         ELSE IF i = failAt /\ o.op # "close"
         THEN [fs EXCEPT !.raised = "IOError"]
         ELSE Exec([Apply(fs, o) EXCEPT !.done = i], ops, i + 1, failAt)

\* The operations among 1..Len(ops) that the environment may fail (0: none)
FailPoints(ops) ==
    {0} \cup {i \in 1..Len(ops) : ops[i].op # "close" /\ failures < MaxFailures}

----------------------------------------------------------------------------
(* The strings dymola_script writes *)

Sep == "/"      \* os.path.sep
Exe(osname) == IF osname = "nt" THEN ".exe" ELSE ""

HeaderLine == <<"// Dymola script written by ModelicaRes ", Today, "\n">>
ImportCopyLine == <<"import Modelica.Utilities.Files.copy;\n">>
ImportCreateDirectoryLine ==
    <<"import Modelica.Utilities.Files.createDirectory;\n">>
AdvancedLine ==
    <<"Advanced.TranslationInCommandLog = true \"Also include translation log in command log\";\n">>
CdLine(dir) == <<"cd(\"", dir, "\");\n">>
RunScriptLine(name) == <<"RunScript(\"", name, "\");\n">>
OpenModelLine(path) == <<"openModel(\"", path, "\");\n">>
DestinationLine(dir) == <<"destination = \"", dir, "\";\n\n">>
ExitLine == <<"exit();\n">>
RunLogHeader == <<"Run #\tCommand\tOptions\tModel & parameters\n">>

RunCommentLine(n) == <<"// Run ", ToString(n), "\n">>
OkLine(call) == <<"ok = ", call, ";\n">>
IfOkLine == <<"if ok then\n">>
SavelogLine == <<"    savelog();\n">>
DestLine(n) == <<"    dest = destination + \"", ToString(n), Sep, "\";\n">>
CreateDirectoryLine == <<"    createDirectory(dest);\n">>
CopyLine(result) == <<"    copy(\"", result, "\", dest + \"", result, "\", true);\n">>
EndIfLine == <<"end if;\n">>
ClearlogLine == <<"clearlog();\n\n">>
RunLogLine(n, command, opts, prob) ==
    <<ToString(n), "\t", command, "\t", opts, "\t", prob, "\n">>

\* every package is opened as a model: no test for a script
PackageOps_AllOpenModel(package, working_dir) ==
    << Write("mos", OpenModelLine(
                IF EndsWith(package, ".mo") THEN PathStr(package)
                ELSE PathStr(PathJoin(package, "package.mo")))),
       Write("mos", CdLine(working_dir)) >>

\* the statements that load one package
PackageOps(package, working_dir) ==
    IF EndsWith(package, ".mos")
    THEN << Write("mos", CdLine(DirName(package))),
            Write("mos", RunScriptLine(BaseName(package))) >>
    ELSE << Write("mos", OpenModelLine(
                IF EndsWith(package, ".mo") THEN PathStr(package)
                ELSE PathStr(PathJoin(package, "package.mo")))),
            Write("mos", CdLine(working_dir)) >>

RECURSIVE PackagesOps(_, _)
PackagesOps(packages, working_dir) ==
    IF packages = <<>> THEN <<>>
    ELSE PackageOps(Head(packages), working_dir)
         \o PackagesOps(Tail(packages), working_dir)

\* __init__ that leaves opening the files to __enter__
InitOps_Deferred(fname, working_dir, packages) == <<>>

\* the file operations of __init__, in program order
InitOps(fname, working_dir, packages) ==
    LET results_dir == DirName(fname) IN
    << Open("mos"),
       Write("mos", HeaderLine),
       Write("mos", ImportCopyLine),
       Write("mos", ImportCreateDirectoryLine),
       Write("mos", AdvancedLine),
       Write("mos", CdLine(working_dir)) >>
    \o PackagesOps(packages, working_dir)
    \o << Write("mos", DestinationLine(results_dir \o Sep)),
          Open("run_log"),
          Write("run_log", RunLogHeader) >>

\* the problem string is formatted whatever the model is
Problem_Always(model, params) ==
    <<"\"", model \o Flat(ParamDictStr(params)), "\"">>

\* problem = '"%s%s"' % (model, ParamDict(params)) if model else None
\* (the string as the groups '"', body, '"'; <<>> stands for None)
Problem(model, params) ==
    IF model # None
    THEN <<"\"", model \o Flat(ParamDictStr(params)), "\"">>
    ELSE <<>>

\* call = '%s%s' % (command, ParamDict(options, problem=problem))
Call(command, options, problem) ==
    command \o Flat(ParamDictStr(WithProblem(options,
                        IF problem = <<>> THEN None ELSE Flat(problem))))

CopyOps(results) == [i \in 1..Len(results) |-> Write("mos", CopyLine(results[i]))]

\* the items of a dict as they are, None values included
RECURSIVE RawItems(_, _)
RawItems(d, keys) ==
    IF keys = <<>> THEN <<>>
    ELSE (IF Head(keys) \in DOMAIN d
          THEN <<Head(keys) \o "=" \o d[Head(keys)]>> ELSE <<>>)
         \o RawItems(d, Tail(keys))

\* run() that logs the options dict itself, not ParamDict(options)
RunOps_RawOptions(n, command, options, results, model, params) ==
    LET problem == Problem(model, params)
        call == Call(command, options, problem)
    IN << Write("mos", RunCommentLine(n)),
          Write("mos", OkLine(call)),
          Write("mos", IfOkLine),
          Write("mos", SavelogLine),
          Write("mos", DestLine(n)),
          Write("mos", CreateDirectoryLine) >>
       \o CopyOps(results)
       \o << Write("mos", EndIfLine),
             Write("mos", ClearlogLine),
             Write("run_log",
                   RunLogLine(n, command,
                              CommaJoin(RawItems(options, KeyOrder)),
                              IF problem # <<>> THEN Flat(Slice1(problem))
                              ELSE "")) >>

\* run() that copies every result into the folder of the first run
RunOps_StaleDest(n, command, options, results, model, params) ==
    LET problem == Problem(model, params)
        call == Call(command, options, problem)
    IN << Write("mos", RunCommentLine(n)),
          Write("mos", OkLine(call)),
          Write("mos", IfOkLine),
          Write("mos", SavelogLine),
          Write("mos", DestLine(1)),
          Write("mos", CreateDirectoryLine) >>
       \o CopyOps(results)
       \o << Write("mos", EndIfLine),
             Write("mos", ClearlogLine),
             Write("run_log",
                   RunLogLine(n, command,
                              Flat(Slice1(ParamDictStr(options))),
                              IF problem # <<>> THEN Flat(Slice1(problem))
                              ELSE "")) >>

\* run() that clears Dymola's log before it has saved it
RunOps_ClearlogFirst(n, command, options, results, model, params) ==
    LET problem == Problem(model, params)
        call == Call(command, options, problem)
    IN << Write("mos", RunCommentLine(n)),
          Write("mos", OkLine(call)),
          Write("mos", ClearlogLine),
          Write("mos", IfOkLine),
          Write("mos", SavelogLine),
          Write("mos", DestLine(n)),
          Write("mos", CreateDirectoryLine) >>
       \o CopyOps(results)
       \o << Write("mos", EndIfLine),
             Write("run_log",
                   RunLogLine(n, command,
                              Flat(Slice1(ParamDictStr(options))),
                              IF problem # <<>> THEN Flat(Slice1(problem))
                              ELSE "")) >>

\* the file operations of run(), in program order, for run number n
RunOps(n, command, options, results, model, params) ==
    LET problem == Problem(model, params)
        call == Call(command, options, problem)
    IN << Write("mos", RunCommentLine(n)),
          Write("mos", OkLine(call)),
          Write("mos", IfOkLine),
          Write("mos", SavelogLine),
          Write("mos", DestLine(n)),
          Write("mos", CreateDirectoryLine) >>
       \o CopyOps(results)
       \o << Write("mos", EndIfLine),
             Write("mos", ClearlogLine),
             Write("run_log",
                   RunLogLine(n, command,
                              Flat(Slice1(ParamDictStr(options))),
                              IF problem # <<>> THEN Flat(Slice1(problem))
                              ELSE "")) >>

\* __exit__ that closes the files without the exit statement
ExitOps_NoStatement == << Close("mos"), Close("run_log") >>

\* __exit__ that closes the script before it writes the exit statement
ExitOps_CloseFirst == << Close("mos"), Write("mos", ExitLine), Close("run_log") >>

\* the file operations of __exit__, in program order
ExitOps == << Write("mos", ExitLine), Close("mos"), Close("run_log") >>

----------------------------------------------------------------------------
(* The writer *)

NoOptions == [k \in {} |-> None]

Init ==
    /\ phase = "new"
    /\ scope = "none"
    /\ mos_file = <<>>
    /\ run_log_file = <<>>
    /\ mos_h = "unset"
    /\ run_log_h = "unset"
    /\ closeOrder = <<>>
    /\ n_runs = 0
    /\ command_ = None
    /\ options_ = NoOptions
    /\ results_ = <<>>
    /\ calls = <<>>
    /\ assigned = NoOptions
    /\ raised = "none"
    /\ failures = 0
    /\ pc = "settings"
    /\ RUN = TRUE
    /\ EXPERIMENTS = <<>>
    /\ MODELS = <<>>
    /\ dymola = "None"
    /\ result_ = "unset"
    /\ engine = [started |-> FALSE, commands |-> <<>>, logs |-> 0,
                 closes |-> 0, usedAfterClose |-> FALSE]
    /\ stubs = <<>>
    /\ lists = [defaults |-> DefaultResults, passed |-> <<>>, caller |-> <<>>]

\* The states of the writer: Open, Active, Closed; Unreleased when the two
\* file objects are not both open and not both closed
WriterState ==
    IF mos_h = "open" /\ run_log_h = "open"
    THEN IF n_runs = 0 THEN "Open" ELSE "Active"
    ELSE IF mos_h = "closed" /\ run_log_h = "closed" THEN "Closed"
    ELSE "Unreleased"

FilesAfter(fs) ==
    /\ mos_file' = fs.mos
    /\ run_log_file' = fs.run_log
    /\ mos_h' = fs.mos_h
    /\ run_log_h' = fs.run_log_h
    /\ closeOrder' = fs.closeOrder
    /\ raised' = fs.raised
    /\ failures' = IF fs.raised = "IOError" THEN failures + 1 ELSE failures

\* results[i] = result.replace('%x', exe), for every i
ReplacedResults(results, osname) ==
    [i \in 1..Len(results) |-> ReplaceExe(results[i], Exe(osname))]

\* the list object bound to the parameter results: the default, made once
\* when the function is defined, or the caller's list
ResultsArg(results) == IF results = Omitted THEN lists.defaults ELSE results

\* the list objects after the loop has assigned to results[i]
ListsAfter(results, osname) ==
    IF results = Omitted
    THEN [lists EXCEPT !.defaults = ReplacedResults(lists.defaults, osname)]
    ELSE [lists EXCEPT !.passed = results,
                       !.caller = ReplacedResults(results, osname)]

\* dymola_script(fname, command, working_dir, results, packages, **options)
Construct(command, results, packages, options, osname, failAt) ==
    /\ phase = "new"
    /\ LET fname == ExpandPath(FName)
           working_dir == Cwd
           fs == Exec(Files, InitOps(fname, working_dir, packages), 1, failAt)
       IN /\ FilesAfter(fs)
          /\ phase' = IF fs.raised = "none" THEN "live" ELSE "failed"
          /\ results_' = ReplacedResults(ResultsArg(results), osname)
          /\ lists' = ListsAfter(results, osname)
          /\ command_' = command
          /\ options_' = options
          /\ assigned' = options
          /\ n_runs' = 0
    /\ UNCHANGED <<driverVars, stubs>>
    /\ UNCHANGED <<scope, calls>>

\* __enter__ that acquires the files (again)
Enter_Reopens ==
    /\ phase = "live"
    /\ scope # "in"
    /\ scope' = "in"
    /\ raised' = "none"
    /\ mos_h' = "open"
    /\ run_log_h' = "open"
    /\ UNCHANGED <<driverVars, stubs, lists>>
    /\ UNCHANGED <<phase, mos_file, run_log_file, closeOrder,
                   n_runs, command_, options_, results_, calls, assigned,
                   failures>>

\* __enter__
Enter ==
    /\ phase = "live"
    /\ scope # "in"
    /\ scope' = "in"
    /\ raised' = "none"
    /\ UNCHANGED <<driverVars, stubs, lists>>
    /\ UNCHANGED <<phase, mos_file, run_log_file, mos_h, run_log_h, closeOrder,
                   n_runs, command_, options_, results_, calls, assigned,
                   failures>>

\* __exit__
Exit(failAt) ==
    /\ phase = "live"
    /\ scope = "in"
    /\ FilesAfter(Exec(Files, ExitOps, 1, failAt))
    /\ scope' = "out"
    /\ UNCHANGED <<driverVars, stubs, lists>>
    /\ UNCHANGED <<phase, n_runs, command_, options_, results_, calls, assigned>>

\* the counter is read but never incremented
NextRunNumber_NoIncrement(n) == n

\* self.n_runs += 1
NextRunNumber(n) == n + 1

\* run() that counts the run once it is written and logged
Run_IncrementLast(model, params, failAt) ==
    /\ phase = "live"
    /\ Len(calls) < MaxRuns
    /\ LET n == NextRunNumber(n_runs)
           ops == RunOps(n, command_, options_, results_, model, params)
           fs == Exec(Files, ops, 1, failAt)
       IN /\ n_runs' = IF fs.raised = "none" THEN n ELSE n_runs
          /\ FilesAfter(fs)
          /\ calls' = Append(calls, [model |-> model, params |-> params,
                                     assigned |-> assigned,
                                     state |-> WriterState,
                                     raised |-> fs.raised, done |-> fs.done,
                                     failAt |-> failAt])
    /\ UNCHANGED <<driverVars, stubs, lists>>
    /\ UNCHANGED <<phase, scope, command_, options_, results_, assigned>>

\* run(model, params)
Run(model, params, failAt) ==
    /\ phase = "live"
    /\ Len(calls) < MaxRuns
    /\ LET n == NextRunNumber(n_runs)
           ops == RunOps(n, command_, options_, results_, model, params)
           fs == Exec(Files, ops, 1, failAt)
       IN /\ n_runs' = n
          /\ FilesAfter(fs)
          /\ calls' = Append(calls, [model |-> model, params |-> params,
                                     assigned |-> assigned,
                                     state |-> WriterState,
                                     raised |-> fs.raised, done |-> fs.done,
                                     failAt |-> failAt])
    /\ UNCHANGED <<driverVars, stubs, lists>>
    /\ UNCHANGED <<phase, scope, command_, options_, results_, assigned>>

\* the value lands in an ordinary attribute, not in the options
SetItem_Shadowed(options, attr, value) == options

\* self._options[attr] = value
SetItem(options, attr, value) ==
    [k \in DOMAIN options \cup {attr} |->
        IF k = attr THEN value ELSE options[k]]

\* __setattr__ that takes command for one of the writer's own attributes
SetAttr_Unreserved(attr, value) ==
    /\ phase = "live"
    /\ IF attr = "command"
       THEN command_' = value /\ options_' = options_
       ELSE command_' = command_ /\ options_' = SetItem(options_, attr, value)
    /\ assigned' = [k \in DOMAIN assigned \cup {attr} |->
                       IF k = attr THEN value ELSE assigned[k]]
    /\ raised' = "none"
    /\ UNCHANGED <<driverVars, stubs, lists>>
    /\ UNCHANGED <<phase, scope, mos_file, run_log_file, mos_h, run_log_h,
                   closeOrder, n_runs, results_, calls, failures>>

\* writer.attr = value, attr not one of the names __setattr__ reserves
SetAttr(attr, value) ==
    /\ phase = "live"
    /\ options_' = SetItem(options_, attr, value)
    /\ assigned' = [k \in DOMAIN assigned \cup {attr} |->
                       IF k = attr THEN value ELSE assigned[k]]
    /\ raised' = "none"
    /\ UNCHANGED <<driverVars, stubs, lists>>
    /\ UNCHANGED <<phase, scope, mos_file, run_log_file, mos_h, run_log_h,
                   closeOrder, n_runs, command_, results_, calls, failures>>

\* writer.attr, attr not an attribute of the object
GetAttr(attr) ==
    /\ phase = "live"
    /\ raised' = IF attr \in DOMAIN options_ THEN "none" ELSE "KeyError"
    /\ UNCHANGED <<driverVars, stubs, lists>>
    /\ UNCHANGED <<phase, scope, mos_file, run_log_file, mos_h, run_log_h,
                   closeOrder, n_runs, command_, options_, results_, calls,
                   assigned, failures>>

----------------------------------------------------------------------------
(* The client and the environment *)

\* Every file operation succeeds
Next ==
    \/ \E c \in Commands, r \in ResultLists, p \in PackageLists,
          o \in OptionDicts, os \in OsNames : Construct(c, r, p, o, os, 0)
    \/ Enter
    \/ Exit(0)
    \/ \E m \in Models, ps \in ParamSets : Run(m, ps, 0)
    \/ \E a \in OptNames, v \in OptValues : SetAttr(a, v)
    \/ \E a \in OptNames : GetAttr(a)

Spec == Init /\ [][Next]_vars

\* open() and write() may raise IOError, at most MaxFailures times
ConstructIO ==
    /\ phase = "new"
    /\ \E c \in Commands, r \in ResultLists, p \in PackageLists,
          o \in OptionDicts, os \in OsNames :
          \E f \in FailPoints(InitOps(ExpandPath(FName), Cwd, p)) :
             Construct(c, r, p, o, os, f)

ExitIO ==
    /\ scope = "in"
    /\ \E f \in FailPoints(ExitOps) : Exit(f)

RunIO ==
    /\ phase = "live"
    /\ \E m \in IOModels, ps \in IOParamSets :
          \* a write on a closed file object never reaches the environment
          \E f \in IF mos_h = "open"
                    THEN FailPoints(RunOps(n_runs + 1, command_, options_,
                                           results_, m, ps))
                    ELSE {0} :
             Run(m, ps, f)

NextIO ==
    \/ ConstructIO
    \/ Enter
    \/ ExitIO
    \/ RunIO
    \/ \E a \in OptNames, v \in OptValues : SetAttr(a, v)
    \/ \E a \in OptNames : GetAttr(a)

SpecIO == Init /\ [][NextIO]_vars

\* Every file operation succeeds; options and parameters may be None
NextArgs ==
    \/ \E c \in Commands, r \in ArgResultLists, o \in ArgOptionDicts,
          os \in OsNames : Construct(c, r, <<>>, o, os, 0)
    \/ Enter
    \/ Exit(0)
    \/ \E m \in Models, ps \in ArgParamSets : Run(m, ps, 0)
    \/ \E a \in ArgOptNames, v \in ArgOptValues : SetAttr(a, v)
    \/ \E a \in ArgOptNames : GetAttr(a)

SpecArgs == Init /\ [][NextArgs]_vars

\* Every file operation succeeds; the client assigns and reads attributes
NextAttrs ==
    \/ \E c \in AttrCommands, o \in OptionDicts, os \in OsNames :
          Construct(c, <<"dsres.mat">>, <<>>, o, os, 0)
    \/ Enter
    \/ Exit(0)
    \/ \E m \in IOModels, ps \in IOParamSets : Run(m, ps, 0)
    \/ \E a \in AttrNames, v \in AttrValues : SetAttr(a, v)
    \/ \E a \in ReadNames : GetAttr(a)

SpecAttrs == Init /\ [][NextAttrs]_vars

\* Every file operation succeeds; the packages are any list
NextPackages ==
    \/ \E c \in Commands, p \in AllPackageLists, o \in OptionDicts,
          os \in OsNames : Construct(c, Omitted, p, o, os, 0)
    \/ Enter
    \/ Exit(0)
    \/ \E m \in IOModels, ps \in IOParamSets : Run(m, ps, 0)

SpecPackages == Init /\ [][NextPackages]_vars

----------------------------------------------------------------------------
(* gen_experiments: the full-factorial expansion of models, parameter      *)
(* values and option values                                                *)

\* the keys of a dict, in iteration order
KeysOf(d) == SelectSeq(KeyOrder, LAMBDA k : k \in DOMAIN d)

\* simultaneous variation: the i-th value of every key goes with the i-th
\* value of the others
RECURSIVE Combos_Zip(_, _)
Combos_Zip(d, keys) ==
    IF keys = <<>> THEN << [k \in {} |-> None] >>
    ELSE LET k == Head(keys)
             rest == Combos_Zip(d, Tail(keys))
             n == IF Tail(keys) = <<>> THEN Len(d[k])
                  ELSE IF Len(d[k]) <= Len(rest) THEN Len(d[k])
                  ELSE Len(rest)
         IN [i \in 1..n |->
                LET r == IF Tail(keys) = <<>> THEN rest[1] ELSE rest[i]
                IN [j \in DOMAIN r \cup {k} |-> IF j = k THEN d[k][i] ELSE r[j]]]

\* every combination of one value per key; the first key varies fastest
RECURSIVE Combos(_, _)
Combos(d, keys) ==
    IF keys = <<>> THEN << [k \in {} |-> None] >>
    ELSE LET k == Head(keys)
             rest == Combos(d, Tail(keys))
             n == Len(d[k])
         IN [i \in 1..(n * Len(rest)) |->
                LET r == rest[((i - 1) \div n) + 1]
                    v == d[k][((i - 1) % n) + 1]
                IN [j \in DOMAIN r \cup {k} |-> IF j = k THEN v ELSE r[j]]]

\* gen_experiments(models, params, args)
GenExperiments(models, params, args) ==
    LET ps == Combos(params, KeysOf(params))
        as == Combos(args, KeysOf(args))
        m == Len(models)
        np == Len(ps)
    IN [i \in 1..(m * np * Len(as)) |->
          [model |-> models[((i - 1) % m) + 1],
           params |-> ps[(((i - 1) \div m) % np) + 1],
           args |-> as[((i - 1) \div (m * np)) + 1]]]

----------------------------------------------------------------------------
(* examples/ChuaCircuit/sim_and_plot.py *)

\* the settings of the script: lists of models, of parameter values and of
\* option values
DrvModelLists ==
    { <<"Modelica.Electrical.Analog.Examples.ChuaCircuit">>,
      <<"Modelica.Electrical.Analog.Examples.ChuaCircuit",
        "Modelica.Electrical.Analog.Examples.CauerLowPassAnalog">> }
DrvParams ==
    { [k \in {} |-> <<>>],
      [k \in {"L.L"} |-> <<"15", "21">>],
      [k \in {"L.L", "C1.C"} |->
          IF k = "L.L" THEN <<"18", "20">> ELSE <<"8", "10">>],
      [k \in {"L.L", "C1.C"} |->
          IF k = "L.L" THEN <<"15", "18", "21">> ELSE <<"8", "10">>] }
DrvArgs ==
    { [k \in {} |-> <<>>],
      [k \in {"stopTime"} |-> <<"2500">>],
      [k \in {"stopTime"} |-> <<"250", "2500">>] }

\* model[model.rfind('.')+1:]
ShortName(model) ==
    CASE model = "Modelica.Electrical.Analog.Examples.ChuaCircuit" ->
            "ChuaCircuit"
      [] model = "Modelica.Electrical.Analog.Examples.CauerLowPassAnalog" ->
            "CauerLowPassAnalog"
      [] OTHER -> model

\* what a call of the Dymola interface may do: return True or False, raise
\* DymolaException, or raise another error
Outcomes == {"True", "False", "DymolaException", "Error"}

\* where the script goes when a statement inside try: raises
Raise(outcome) == IF outcome = "DymolaException" THEN "except" ELSE "aborted"

\* one use of the interface dymola
Use(e, command, outcome) ==
    [e EXCEPT !.commands = Append(@, [command |-> command, outcome |-> outcome]),
              !.usedAfterClose = @ \/ e.closes > 0]

\* RUN, EXPERIMENTS = gen_experiments(...)
Settings(run, models, params, args) ==
    /\ pc = "settings"
    /\ UNCHANGED <<writerVars, stubs, lists>>
    /\ RUN' = run
    /\ EXPERIMENTS' = GenExperiments(models, params, args)
    /\ pc' = IF run THEN "write_script" ELSE "models"
    /\ UNCHANGED <<MODELS, dymola, result_, engine>>

\* MODELS, RESULTS_DIR = write_script(EXPERIMENTS, ...); dymola = None
WriteScript ==
    /\ pc = "write_script"
    /\ UNCHANGED <<writerVars, stubs, lists>>
    /\ MODELS' = [i \in 1..Len(EXPERIMENTS) |-> ShortName(EXPERIMENTS[i].model)]
    /\ dymola' = "None"
    /\ pc' = "DymolaInterface"
    /\ UNCHANGED <<RUN, EXPERIMENTS, result_, engine>>

\* dymola = DymolaInterface()
DymolaInterface(outcome) ==
    /\ pc = "DymolaInterface"
    /\ UNCHANGED <<writerVars, stubs, lists>>
    /\ IF outcome = "True"
       THEN /\ dymola' = "interface"
            /\ engine' = [engine EXCEPT !.started = TRUE]
            /\ pc' = "setWorkDirectory"
       ELSE /\ pc' = Raise(outcome)
            /\ UNCHANGED <<dymola, engine>>
    /\ UNCHANGED <<RUN, EXPERIMENTS, MODELS, result_>>

\* result = dymola.ExecuteCommand(command), at the statement at
ExecuteCommand(at, command, outcome, next) ==
    /\ pc = at
    /\ UNCHANGED <<writerVars, stubs, lists>>
    /\ engine' = Use(engine, command, outcome)
    /\ IF outcome \in {"True", "False"}
       THEN /\ result_' = outcome
            /\ pc' = next
       ELSE /\ pc' = Raise(outcome)
            /\ UNCHANGED result_
    /\ UNCHANGED <<RUN, EXPERIMENTS, MODELS, dymola>>

\* if not result: print(...); get_last_log(dymola)
CheckResult(outcome) ==
    /\ pc = "if not result"
    /\ UNCHANGED <<writerVars, stubs, lists>>
    /\ IF result_ = "False"
       THEN /\ engine' = [Use(engine, "getLastErrorLog", outcome)
                            EXCEPT !.logs = IF outcome = "True" THEN @ + 1 ELSE @]
            /\ pc' = IF outcome = "True" THEN "if dymola is not None"
                     ELSE Raise(outcome)
       ELSE /\ pc' = "if dymola is not None"
            /\ UNCHANGED engine
    /\ UNCHANGED <<RUN, EXPERIMENTS, MODELS, dymola, result_>>

\* the except clause ends the run: the statements after it are not reached
Except_NoClose ==
    /\ pc = "except"
    /\ UNCHANGED <<writerVars, stubs, lists>>
    /\ pc' = "plots"
    /\ UNCHANGED <<RUN, EXPERIMENTS, MODELS, dymola, result_, engine>>

\* except DymolaException as ex: print("Error: " + str(ex))
Except ==
    /\ pc = "except"
    /\ UNCHANGED <<writerVars, stubs, lists>>
    /\ pc' = "if dymola is not None"
    /\ UNCHANGED <<RUN, EXPERIMENTS, MODELS, dymola, result_, engine>>

\* if dymola is not None: dymola.close(); dymola = None
CloseInterface ==
    /\ pc = "if dymola is not None"
    /\ UNCHANGED <<writerVars, stubs, lists>>
    /\ IF dymola # "None"
       THEN /\ engine' = [engine EXCEPT !.closes = @ + 1]
            /\ dymola' = "None"
       ELSE UNCHANGED <<dymola, engine>>
    /\ pc' = "plots"
    /\ UNCHANGED <<RUN, EXPERIMENTS, MODELS, result_>>

\* else: MODELS = [experiment.model[experiment.model.rfind('.')+1:] ...]
ModelsOnly ==
    /\ pc = "models"
    /\ UNCHANGED <<writerVars, stubs, lists>>
    /\ MODELS' = [i \in 1..Len(EXPERIMENTS) |-> ShortName(EXPERIMENTS[i].model)]
    /\ pc' = "plots"
    /\ UNCHANGED <<RUN, EXPERIMENTS, dymola, result_, engine>>

NextDriver ==
    \/ \E run \in BOOLEAN, models \in DrvModelLists, params \in DrvParams,
          args \in DrvArgs : Settings(run, models, params, args)
    \/ WriteScript
    \/ \E o \in Outcomes \ {"False"} : DymolaInterface(o)
    \/ \E o \in Outcomes :
          ExecuteCommand("setWorkDirectory", "setWorkDirectory", o, "RunScript")
    \/ \E o \in Outcomes :
          ExecuteCommand("RunScript", "RunScript", o, "if not result")
    \/ \E o \in Outcomes \ {"False"} : CheckResult(o)
    \/ Except
    \/ CloseInterface
    \/ ModelsOnly

SpecDriver == Init /\ [][NextDriver]_vars

----------------------------------------------------------------------------
(* dymosim and fmi: context managers that are not implemented *)

\* arguments of dymosim(working_dir, results_dir, results)
StubDirs == {None, "examples/ChuaCircuit"}
StubResultLists ==
    { <<"dsin.txt", "dslog.txt", "dsres.mat", "dymosim%x", "dymolalg.txt">>,
      <<"dsres.mat">> }
\* arguments of fmi(*args, **kwargs)
FmiArgs == { [k \in {} |-> None], [k \in {"stopTime"} |-> "2500"] }

\* what os.path.dirname(None) raises (Python 3, Python 2)
DirnameErrors == {"TypeError", "AttributeError"}

\* dymosim.__init__: the exception the constructor ends with.  The statements
\* run in order; the first that raises ends the call.
DymosimRaises(working_dir, results_dir, results, dirnameError) ==
    IF results_dir = None
    THEN dirnameError             \* results_dir = os.path.dirname(results_dir)
    ELSE "NotImplementedError"    \* raise NotImplementedError(...)

\* dymosim(working_dir, results_dir, results)
NewDymosim(working_dir, results_dir, results, osname, dirnameError) ==
    /\ Len(stubs) < MaxStubs
    /\ LET r == DymosimRaises(working_dir, results_dir, results, dirnameError)
       IN stubs' = Append(stubs,
                     [class |-> "dymosim",
                      args |-> <<working_dir, results_dir, results>>,
                      raised |-> r, instance |-> (r = "none")])
    /\ lists' = IF results_dir = None THEN lists
                ELSE [lists EXCEPT !.passed = results,
                                   !.caller = ReplacedResults(results, osname)]
    /\ UNCHANGED <<writerVars, driverVars>>

\* fmi.__init__: raise NotImplementedError(...)
FmiRaises(kwargs) == "NotImplementedError"

\* fmi(*args, **kwargs)
NewFmi(kwargs) ==
    /\ Len(stubs) < MaxStubs
    /\ LET r == FmiRaises(kwargs)
       IN stubs' = Append(stubs,
                     [class |-> "fmi", args |-> <<kwargs>>,
                      raised |-> r, instance |-> (r = "none")])
    /\ UNCHANGED <<writerVars, driverVars, lists>>

NextStubs ==
    \/ \E w \in StubDirs, d \in StubDirs, r \in StubResultLists,
          os \in OsNames, e \in DirnameErrors : NewDymosim(w, d, r, os, e)
    \/ \E k \in FmiArgs : NewFmi(k)

SpecStubs == Init /\ [][NextStubs]_vars

----------------------------------------------------------------------------
(* Properties *)

Closed == WriterState = "Closed"

\* the run() calls made while the writer was Open or Active
Accepted == {k \in 1..Len(calls) : calls[k].state \in {"Open", "Active"}}

\* the data lines of the run log (all but the header line)
DataLines == SubSeq(run_log_file, 2, Len(run_log_file))

\* number of occurrences of a line in a file
Count(file, line) == Cardinality({i \in 1..Len(file) : file[i] = line})

\* C1: the k-th run call made on an Open or Active writer writes run number k
\* to the run log: the data lines of the log carry 1, 2, ..., n in this order,
\* without gap or repeat, n being the number of those run calls.
C1_RunNumbersSequential ==
    phase = "live" =>
        /\ Accepted = 1..Cardinality(Accepted)
        /\ Len(DataLines) = Cardinality(Accepted)
        /\ \A k \in Accepted : DataLines[k][1] = ToString(k)

C1_Witness ==
    /\ Accepted = {1, 2}
    /\ Len(DataLines) = 2
    /\ DataLines[2][1] = "2"

\* C2: after every exit from the with-scope both file objects are closed.
C2_BothClosedAfterScopeExit ==
    scope = "out" => (mos_h = "closed" /\ run_log_h = "closed")

\* C3 (as claimed): a file of the writer is open only inside the with-scope.
C3_OpenOnlyInsideScope ==
    (mos_h = "open" \/ run_log_h = "open") => scope = "in"

\* C3 (amended): both files are acquired by the constructor, not by entering
\* the scope: no file object exists before construction, a writer that has
\* not entered its scope already holds both files open, and entering the
\* scope opens no file and changes none.
C3_AcquiredAtConstruction ==
    [][/\ phase' = "new" => (mos_h' = "unset" /\ run_log_h' = "unset")
       /\ (phase' = "live" /\ scope' = "none") =>
            (mos_h' = "open" /\ run_log_h' = "open")
       /\ (scope # "in" /\ scope' = "in") =>
            UNCHANGED <<mos_h, run_log_h, mos_file, run_log_file>>]_vars

C3_Witness ==
    /\ phase = "live"
    /\ scope = "none"
    /\ mos_h = "open"
    /\ run_log_h = "open"
    /\ Len(mos_file) > 0

\* C4: a run call on a Closed writer raises and appends nothing to the script
\* or the run log, and no operation takes the writer out of Closed.
C4_ClosedIsTerminal ==
    [][Closed =>
        /\ Closed'
        /\ mos_file' = mos_file
        /\ run_log_file' = run_log_file
        /\ (calls' # calls => raised' # "none")]_vars

C4_Witness ==
    /\ Closed
    /\ calls # <<>>
    /\ calls[Len(calls)].state = "Closed"
    /\ raised = "ValueError"
    /\ scope = "in"

\* C5: leaving the scope writes exit() to the script, closes the script and
\* then the run log, in this order and in this one step (an exit whose write
\* of exit() raises stops there); files are closed by no other operation;
\* exit() is written once, and once it is in the script nothing more is
\* written to the script or to the run log.
C5_ExitStepsInOrder ==
    [][/\ (scope = "in" /\ scope' = "out" /\ raised' = "none") =>
            /\ mos_file' = Append(mos_file, ExitLine)
            /\ closeOrder' = closeOrder \o <<"mos", "run_log">>
            /\ run_log_file' = run_log_file
       /\ closeOrder' # closeOrder =>
            /\ scope = "in" /\ scope' = "out"
            /\ closeOrder = <<>>
            /\ closeOrder' = <<"mos", "run_log">>
            /\ mos_file' = Append(mos_file, ExitLine)
       /\ Count(mos_file', ExitLine) <= 1
       /\ Count(mos_file, ExitLine) = 1 =>
            (mos_file' = mos_file /\ run_log_file' = run_log_file)]_vars

C5_Witness ==
    /\ scope = "in"
    /\ closeOrder = <<"mos", "run_log">>
    /\ mos_file[Len(mos_file)] = ExitLine
    /\ Len(calls) = 2
    /\ calls[1].state = "Open"
    /\ calls[2].state = "Closed"

----------------------------------------------------------------------------
(* Reading the script back *)

\* the kind of statement a written string is, by its literal first piece
Kind(line) ==
    CASE line[1] = "// Dymola script written by ModelicaRes " -> "header"
      [] line[1] = "import Modelica.Utilities.Files.copy;\n" -> "import copy"
      [] line[1] = "import Modelica.Utilities.Files.createDirectory;\n" ->
            "import createDirectory"
      [] line[1] = "Advanced.TranslationInCommandLog = true \"Also include translation log in command log\";\n" ->
            "advanced"
      [] line[1] = "cd(\"" -> "cd"
      [] line[1] = "RunScript(\"" -> "preload"
      [] line[1] = "openModel(\"" -> "preload"
      [] line[1] = "destination = \"" -> "destination"
      [] line[1] = "// Run " -> "comment"
      [] line[1] = "ok = " -> "ok"
      [] line[1] = "if ok then\n" -> "if"
      [] line[1] = "    savelog();\n" -> "savelog"
      [] line[1] = "    dest = destination + \"" -> "dest"
      [] line[1] = "    createDirectory(dest);\n" -> "createDirectory"
      [] line[1] = "    copy(\"" -> "copy"
      [] line[1] = "end if;\n" -> "end if"
      [] line[1] = "clearlog();\n\n" -> "clearlog"
      [] line[1] = "exit();\n" -> "exit"
      [] OTHER -> "?"

\* where the destination assignment stands in the script (0: nowhere)
DestinationAt ==
    LET at == {i \in 1..Len(mos_file) : Kind(mos_file[i]) = "destination"}
    IN IF at = {} THEN 0 ELSE CHOOSE i \in at : \A j \in at : i <= j

\* number of strings one run() call writes to the script
BlockLen == 8 + Len(results_)

\* the strings run call k wrote, when every call wrote its whole block
Block(k) == SubSeq(mos_file, DestinationAt + (k - 1) * BlockLen + 1,
                   DestinationAt + k * BlockLen)

\* the text of the options as the client last assigned them before call c
AssignedText(c) ==
    IF "stopTime" \in DOMAIN c.assigned
    THEN "stopTime=" \o c.assigned["stopTime"]
    ELSE ""

\* the model and parameter text of call c
ProblemText(c) ==
    IF c.model = None THEN ""
    ELSE IF "L.L" \in DOMAIN c.params
         THEN c.model \o "(L.L=" \o c.params["L.L"] \o ")"
         ELSE c.model

\* the command of call c as Dymola is to read it
CallText(c) ==
    LET prob == IF c.model = None THEN ""
                ELSE "problem=\"" \o ProblemText(c) \o "\""
        opts == AssignedText(c)
    IN command_ \o
       (IF prob = "" /\ opts = "" THEN ""
        ELSE IF prob = "" THEN "(" \o opts \o ")"
        ELSE IF opts = "" THEN "(" \o prob \o ")"
        ELSE "(" \o prob \o ", " \o opts \o ")")

IsPrefix(s, t) == Len(s) <= Len(t) /\ SubSeq(t, 1, Len(s)) = s

Min(a, b) == IF a <= b THEN a ELSE b

----------------------------------------------------------------------------

\* C6: the command and the log record of run k carry the option values the
\* client had assigned last when run k was called: an assignment shows in
\* every later run and in no earlier one.
C6_OptionsAsOfTheCall ==
    phase = "live" =>
        \A k \in Accepted :
            /\ Block(k)[2] = <<"ok = ", CallText(calls[k]), ";\n">>
            /\ DataLines[k][5] = AssignedText(calls[k])

C6_Witness ==
    /\ Accepted = {1, 2}
    /\ DataLines[1][5] = "stopTime=250"
    /\ DataLines[2][5] = "stopTime=2500"
    /\ Block(1)[2][2] = "simulateModel(problem=\"ChuaCircuit\", stopTime=250)"
    /\ Block(2)[2][2] = "simulateModel(problem=\"ChuaCircuit\", stopTime=2500)"

\* C7: the script holds one run block per run call made on the Open or Active
\* writer, in call order and nothing else after the header but the final
\* exit(); block k is labelled run k, sets its destination to
\* destination + "k/" and copies every file of the writer's result list, in
\* order; log line k carries the run number, command, options and
\* model/parameter text of block k.
C7_OneBlockPerRun ==
    phase = "live" =>
        LET n == Cardinality(Accepted)
            d == DestinationAt
        IN /\ d > 0
           /\ Len(mos_file) = d + n * BlockLen + (IF Closed THEN 1 ELSE 0)
           /\ Len(DataLines) = n
           /\ \A k \in 1..n :
                /\ Block(k) =
                        << <<"// Run ", ToString(k), "\n">>,
                           <<"ok = ", CallText(calls[k]), ";\n">>,
                           <<"if ok then\n">>,
                           <<"    savelog();\n">>,
                           <<"    dest = destination + \"", ToString(k), "/", "\";\n">>,
                           <<"    createDirectory(dest);\n">> >>
                        \o [i \in 1..Len(results_) |->
                               <<"    copy(\"", results_[i], "\", dest + \"",
                                 results_[i], "\", true);\n">>]
                        \o << <<"end if;\n">>, <<"clearlog();\n\n">> >>
                /\ DataLines[k] = <<ToString(k), "\t", command_, "\t",
                                    AssignedText(calls[k]), "\t",
                                    ProblemText(calls[k]), "\n">>

C7_Witness ==
    /\ Closed
    /\ Accepted = {1, 2}
    /\ Len(results_) = 5
    /\ calls[1].model = "ChuaCircuit"
    /\ calls[1].params = [k \in {} |-> None]
    /\ calls[2].params = [k \in {"L.L"} |-> "15"]
    /\ Block(1)[5][2] = "1"
    /\ Block(2)[5][2] = "2"
    /\ DataLines[1][7] = "ChuaCircuit"
    /\ DataLines[2][7] = "ChuaCircuit(L.L=15)"

\* the kinds of the strings of one run block, in order
BlockKinds ==
    <<"comment", "ok", "if", "savelog", "dest", "createDirectory">>
    \o [i \in 1..Len(results_) |-> "copy"]
    \o <<"end if", "clearlog">>

\* C8: the script is the header (the fixed statements, then the package
\* preloads, then the destination assignment), then the run blocks, then
\* exit(); every run block is the run comment, the invocation assigning ok,
\* the block guarded by ok (savelog, destination, createDirectory, copies)
\* and the clearlog call, in this order.
C8_ScriptOrder ==
    phase = "live" =>
        LET d == DestinationAt
            last == Len(mos_file)
            body == IF Closed THEN last - 1 ELSE last
        IN /\ d >= 6
           /\ [i \in 1..5 |-> Kind(mos_file[i])] =
                <<"header", "import copy", "import createDirectory",
                  "advanced", "cd">>
           /\ \A i \in 6..(d - 1) : Kind(mos_file[i]) \in {"cd", "preload"}
           /\ \A i \in 1..last : Kind(mos_file[i]) = "destination" => i = d
           /\ \A i \in 1..last : Kind(mos_file[i]) = "exit" => i = last
           /\ Closed => Kind(mos_file[last]) = "exit"
           /\ \A i \in (d + 1)..body :
                Kind(mos_file[i]) = BlockKinds[((i - d - 1) % BlockLen) + 1]
           /\ (body - d) % BlockLen = 0

C8_Witness ==
    /\ Closed
    /\ Accepted = {1, 2}
    /\ DestinationAt = 10
    /\ Kind(mos_file[Len(mos_file)]) = "exit"

\* C9: a scope left without a run call leaves a script that is the header
\* followed by exit(), without any run block, and a run log that is the
\* header line alone.
C9_NoRuns ==
    (Closed /\ Accepted = {}) =>
        LET d == DestinationAt
        IN /\ d >= 6
           /\ SubSeq(mos_file, 1, 4) =
                << <<"// Dymola script written by ModelicaRes ", Today, "\n">>,
                   <<"import Modelica.Utilities.Files.copy;\n">>,
                   <<"import Modelica.Utilities.Files.createDirectory;\n">>,
                   <<"Advanced.TranslationInCommandLog = true \"Also include translation log in command log\";\n">> >>
           /\ mos_file[5] = <<"cd(\"", Cwd, "\");\n">>
           /\ \A i \in 6..(d - 1) : Kind(mos_file[i]) \in {"cd", "preload"}
           /\ mos_file[d] = <<"destination = \"",
                              Cwd \o "/" \o FName.dir \o "/", "\";\n\n">>
           /\ Len(mos_file) = d + 1
           /\ mos_file[d + 1] = <<"exit();\n">>
           /\ run_log_file = << <<"Run #\tCommand\tOptions\tModel & parameters\n">> >>

C9_Witness ==
    /\ Closed
    /\ scope = "out"
    /\ calls = <<>>
    /\ Len(mos_file) = 7
    /\ Len(run_log_file) = 1

\* C10: nothing written is ever taken back: every operation, failing or not,
\* leaves the script and the run log extended by exactly the strings it wrote
\* before it returned or raised, and leaving the scope after an error still
\* writes exit() and closes both files (unless that write fails too).
C10_NothingRolledBack ==
    [][phase # "new" =>
        /\ IsPrefix(mos_file, mos_file')
        /\ IsPrefix(run_log_file, run_log_file')
        /\ calls' # calls =>
             LET c == calls'[Len(calls')]
             IN /\ Len(mos_file') - Len(mos_file) = Min(c.done, BlockLen)
                /\ Len(run_log_file') - Len(run_log_file) =
                        IF c.done > BlockLen THEN 1 ELSE 0
        /\ (scope = "in" /\ scope' = "out" /\ failures' = failures) =>
             /\ Closed'
             /\ mos_file'[Len(mos_file')] = ExitLine]_vars

C10_Witness ==
    /\ Closed
    /\ scope = "out"
    /\ Len(calls) = 1
    /\ calls[1].raised = "IOError"
    /\ calls[1].done = 7
    /\ Kind(mos_file[Len(mos_file) - 1]) = "copy"
    /\ Len(run_log_file) = 1

\* C11: a write that the environment fails during run() is not retried: the
\* IOError reaches the caller of that run() call, the script holds exactly the
\* strings written before the failing write, and no later write of the call
\* (to the script or to the run log) is performed.
C11_NoRetry ==
    [][(calls' # calls /\ calls'[Len(calls')].failAt > 0
            /\ calls'[Len(calls')].state \in {"Open", "Active"}) =>
         LET c == calls'[Len(calls')]
         IN /\ raised' = "IOError"
            /\ c.raised = "IOError"
            /\ c.done = c.failAt - 1
            /\ mos_file' = mos_file \o
                    SubSeq(mos_file', Len(mos_file) + 1,
                           Len(mos_file) + Min(c.failAt - 1, BlockLen))
            /\ \A i \in (Len(mos_file) + 1)..Len(mos_file') :
                    Kind(mos_file'[i]) = BlockKinds[i - Len(mos_file)]
            /\ run_log_file' = run_log_file]_vars

C11_Witness ==
    /\ Len(calls) = 2
    /\ calls[1].failAt = 2
    /\ calls[1].raised = "IOError"
    /\ calls[2].raised = "none"
    /\ Count(mos_file, <<"// Run ", "1", "\n">>) = 1
    /\ Len(DataLines) = 1

----------------------------------------------------------------------------
(* Options and parameters that are None *)

\* a dict without its items whose value is None
Strip(d) == [k \in {j \in DOMAIN d : d[j] # None} |-> d[k]]

\* "key=value" for every item of a dict, in the order of its keys
ItemsOf(d) ==
    LET ks == SelectSeq(KeyOrder, LAMBDA k : k \in DOMAIN d)
    IN [i \in 1..Len(ks) |-> ks[i] \o "=" \o d[ks[i]]]

Paren(items) == IF items = <<>> THEN "" ELSE "(" \o CommaJoin(items) \o ")"

\* C12: the run command and the log record of every run are those of the
\* options and parameters without their None-valued items: such an item
\* leaves no trace, and every item with another value is there as key=value.
C12_NoneOmitted ==
    phase = "live" =>
        \A k \in Accepted :
            LET c == calls[k]
                opts == ItemsOf(Strip(c.assigned))
                prob == IF c.model = None THEN ""
                        ELSE c.model \o Paren(ItemsOf(Strip(c.params)))
                probItem == IF c.model = None THEN <<>>
                            ELSE <<"problem=\"" \o prob \o "\"">>
            IN /\ Block(k)[2] =
                    <<"ok = ", command_ \o Paren(probItem \o opts), ";\n">>
               /\ DataLines[k][5] = CommaJoin(opts)
               /\ DataLines[k][7] = prob

C12_Witness ==
    /\ Accepted = {1, 2}
    /\ calls[1].model = "ChuaCircuit"
    /\ calls[1].assigned = [k \in {"stopTime", "tolerance"} |->
                               IF k = "stopTime" THEN "2500" ELSE None]
    /\ calls[1].params = [k \in {"L.L", "C1.C"} |->
                             IF k = "L.L" THEN "15" ELSE None]
    /\ Block(1)[2][2] =
            "simulateModel(problem=\"ChuaCircuit(L.L=15)\", stopTime=2500)"
    /\ DataLines[1] = <<"1", "\t", "simulateModel", "\t", "stopTime=2500",
                        "\t", "ChuaCircuit(L.L=15)", "\n">>
    /\ calls[2].params = [k \in {"L.L"} |-> None]
    /\ calls[2].assigned["tolerance"] = "250"
    /\ Block(2)[2][2] =
            "simulateModel(problem=\"ChuaCircuit\", stopTime=2500, tolerance=250)"

\* C13: a run called with model None has no problem argument in its command
\* and an empty model-and-parameters field in its log record, whatever params
\* holds, and is numbered and logged like every other run.
C13_ModelNone ==
    phase = "live" =>
        /\ Len(DataLines) = Cardinality(Accepted)
        /\ \A k \in Accepted :
              calls[k].model = None =>
                LET opts == ItemsOf(Strip(calls[k].assigned))
                IN /\ Block(k)[1] = <<"// Run ", ToString(k), "\n">>
                   /\ Block(k)[2] = <<"ok = ", command_ \o Paren(opts), ";\n">>
                   /\ DataLines[k] = <<ToString(k), "\t", command_, "\t",
                                       CommaJoin(opts), "\t", "", "\n">>

C13_Witness ==
    /\ Accepted = {1, 2}
    /\ calls[1].model = None
    /\ calls[1].params = [k \in {"L.L", "C1.C"} |->
                             IF k = "L.L" THEN "15" ELSE None]
    /\ Block(1)[2][2] = "simulateModel(stopTime=2500)"
    /\ DataLines[1][7] = ""
    /\ calls[2].model = None
    /\ DataLines[2][1] = "2"
    /\ Closed

----------------------------------------------------------------------------
(* The example script and the Dymola interface *)

\* the outcomes of the commands executed so far
CommandOutcomes ==
    {engine.commands[i].outcome : i \in 1..Len(engine.commands)}

\* C14: when the example script has passed its RUN block (the commands
\* returned True or False, or a DymolaException was raised and caught) and
\* the interface had been opened, close() has been called on it once; it is
\* never called twice, the interface is never used after close(), and an
\* interface that was never opened is never closed.
C14_ClosedExactlyOnce ==
    /\ engine.closes <= 1
    /\ ~engine.usedAfterClose
    /\ engine.closes = 1 => (engine.started /\ dymola = "None")
    /\ (pc = "plots" /\ RUN) =>
            engine.closes = (IF engine.started THEN 1 ELSE 0)

C14_Witness ==
    /\ pc = "plots"
    /\ engine.started
    /\ engine.closes = 1
    /\ Len(engine.commands) = 2
    /\ engine.commands[1].outcome = "False"
    /\ engine.commands[2].outcome = "DymolaException"

\* C15: when a command has returned False, the error log of the engine has
\* been retrieved by the time the RUN block is left without an exception;
\* and no command is executed twice.
C15_FalseIsLogged ==
    /\ (pc = "plots" /\ "False" \in CommandOutcomes
            /\ CommandOutcomes \subseteq {"True", "False"}) => engine.logs >= 1
    /\ \A i, j \in 1..Len(engine.commands) :
            engine.commands[i].command = engine.commands[j].command => i = j

\* C16: every dymosim(...) and every fmi(...) call, whatever its arguments,
\* raises NotImplementedError, and none gives an instance.
C16_StubsNotImplemented ==
    \A i \in 1..Len(stubs) :
        /\ stubs[i].raised = "NotImplementedError"
        /\ ~stubs[i].instance

----------------------------------------------------------------------------
(* The experiment generator *)

\* n1 * n2 * ...: the product of the numbers of candidate values of the keys
RECURSIVE Product(_, _)
Product(d, keys) ==
    IF keys = <<>> THEN 1 ELSE Len(d[Head(keys)]) * Product(d, Tail(keys))

\* the values of a sequence
Range(seq) == {seq[i] : i \in 1..Len(seq)}

\* every choice of one candidate value per key of d
Choices(d) == {c \in [DOMAIN d -> UNION {Range(d[k]) : k \in DOMAIN d}] :
                  \A k \in DOMAIN d : c[k] \in Range(d[k])}

\* C17: for m models, parameters with n1, n2, ... candidate values and
\* options with a1, a2, ... candidate values, gen_experiments gives
\* m * n1 * n2 * ... * a1 * a2 * ... experiments: every combination of a
\* model, one value per parameter and one value per option, each once.  With
\* no option or one value per option that is m * n1 * n2 * ... experiments,
\* one per combination of a model and parameter values.
C17_FullFactorial ==
    [][\A run \in BOOLEAN, models \in DrvModelLists, params \in DrvParams,
          args \in DrvArgs :
          Settings(run, models, params, args) =>
            LET E == EXPERIMENTS'
                np == Product(params, KeysOf(params))
                na == Product(args, KeysOf(args))
            IN /\ Len(E) = Len(models) * np * na
               /\ na = 1 => Len(E) = Len(models) * np
               /\ \A i, j \in 1..Len(E) : E[i] = E[j] => i = j
               /\ \A m \in Range(models), p \in Choices(params),
                     a \in Choices(args) :
                     \E i \in 1..Len(E) :
                        E[i] = [model |-> m, params |-> p, args |-> a]]_vars

C17_Witness ==
    /\ pc # "settings"
    /\ Len(EXPERIMENTS) = 4
    /\ \A i \in 1..4 :
          EXPERIMENTS[i].model = "Modelica.Electrical.Analog.Examples.ChuaCircuit"
    /\ [i \in 1..4 |-> EXPERIMENTS[i].params["C1.C"]] = <<"8", "10", "8", "10">>
    /\ [i \in 1..4 |-> EXPERIMENTS[i].params["L.L"]] = <<"18", "18", "20", "20">>
    /\ EXPERIMENTS[1].args = [k \in {"stopTime"} |-> "2500"]

----------------------------------------------------------------------------
(* Preloaded packages *)

\* the statements of a script in front of its destination assignment
HeaderOf(file) ==
    LET at == {i \in 1..Len(file) : Kind(file[i]) = "destination"}
    IN IF at = {} THEN file
       ELSE SubSeq(file, 1, (CHOOSE i \in at : \A j \in at : i <= j) - 1)

\* the places of the load statements in a header
LoadsAt(header) ==
    {i \in 1..Len(header) : Kind(header[i]) = "preload"}

\* the i-th smallest element of a set of numbers
RECURSIVE Nth(_, _)
Nth(S, i) ==
    LET least == CHOOSE x \in S : \A y \in S : x <= y
    IN IF i = 1 THEN least ELSE Nth(S \ {least}, i - 1)

\* C18: the header written for a list of packages holds, in front of the
\* destination assignment, one load statement per package, in list order:
\* for an entry ending in .mos, RunScript of its file name right after a cd
\* to its folder; for an entry ending in .mo, openModel of the entry; for any
\* other entry, openModel of <entry>/package.mo.
C18_OneLoadPerPackage ==
    [][\A c \in Commands, p \in AllPackageLists, o \in OptionDicts,
          os \in OsNames :
          Construct(c, Omitted, p, o, os, 0) =>
            LET header == HeaderOf(mos_file')
                at == LoadsAt(header)
            IN /\ Len(header) < Len(mos_file')
               /\ Cardinality(at) = Len(p)
               /\ \A i \in 1..Len(p) :
                    LET j == Nth(at, i)
                        entry == p[i].dir \o "/" \o p[i].base
                    IN CASE p[i] = MosScript ->
                              /\ header[j] = <<"RunScript(\"", p[i].base, "\");\n">>
                              /\ header[j - 1] = <<"cd(\"", p[i].dir, "\");\n">>
                         [] p[i] = MoFile ->
                              header[j] = <<"openModel(\"", entry, "\");\n">>
                         [] OTHER ->
                              header[j] = <<"openModel(\"",
                                            entry \o "/" \o "package.mo",
                                            "\");\n">>]_vars

C18_Witness ==
    /\ phase = "live"
    /\ Len(HeaderOf(mos_file)) = 9
    /\ mos_file[6] = <<"openModel(\"", "/opt/VehicleInterfaces/package.mo", "\");\n">>
    /\ mos_file[8] = <<"cd(\"", "/lib", "\");\n">>
    /\ mos_file[9] = <<"RunScript(\"", "init.mos", "\");\n">>
    /\ Kind(mos_file[10]) = "destination"

\* C19: the last cd the header holds in front of the destination assignment
\* (and so in front of every run block) is cd(working_dir).
C19_LastCdIsWorkingDir ==
    phase = "live" =>
        LET header == HeaderOf(mos_file)
            cds == {i \in 1..Len(header) : Kind(header[i]) = "cd"}
        IN /\ cds # {}
           /\ header[CHOOSE i \in cds : \A j \in cds : j <= i] =
                    <<"cd(\"", Cwd, "\");\n">>

----------------------------------------------------------------------------
(* The run counter *)

\* the run() calls that returned
Returned == {k \in 1..Len(calls) : calls[k].raised = "none"}

\* the run() calls that wrote their run comment
Started == {k \in 1..Len(calls) : calls[k].done >= 1}

\* the run comments in the script
RunComments == {i \in 1..Len(mos_file) : Kind(mos_file[i]) = "comment"}

\* C20 (as claimed): between operations the run counter equals the number of
\* data lines of the run log and the number of run blocks of the script.
C20_CounterMatchesLog ==
    phase = "live" =>
        /\ n_runs = Len(DataLines)
        /\ n_runs = Cardinality(RunComments)

\* C20 (amended): the run counter is the number of run() calls made, whether
\* they returned or raised; the data lines of the log are those of the calls
\* that returned, each carrying the number of its call, and the script holds
\* one run comment per call that got as far as writing it; so the counter
\* equals both numbers as long as no call has raised, and a call that raises
\* consumes its run number.
C20_CounterCountsCalls ==
    phase = "live" =>
        /\ n_runs = Len(calls)
        /\ Len(DataLines) = Cardinality(Returned)
        /\ \A i \in 1..Len(DataLines) :
              DataLines[i][1] = ToString(Nth(Returned, i))
        /\ Cardinality(RunComments) = Cardinality(Started)
        /\ Returned = 1..Len(calls) =>
              (n_runs = Len(DataLines) /\ n_runs = Cardinality(RunComments))

C20_Witness ==
    /\ phase = "live"
    /\ Len(calls) = 2
    /\ calls[1].raised = "IOError"
    /\ calls[1].done = 3
    /\ calls[2].raised = "none"
    /\ n_runs = 2
    /\ Len(DataLines) = 1
    /\ DataLines[1][1] = "2"

----------------------------------------------------------------------------
(* Construction that fails *)

\* C21: a construction that raises leaves no file object open: after it,
\* either the writer exists and holds both files open, or no file is open.
C21_NoHandleAfterFailedConstruction ==
    /\ phase = "failed" => (mos_h # "open" /\ run_log_h # "open")
    /\ (phase = "live" /\ scope = "none") =>
            (mos_h = "open" /\ run_log_h = "open")

----------------------------------------------------------------------------
(* Attributes *)

\* C22: assigning an attribute that is not one of the reserved names changes
\* the options and nothing else: command, run counter, result list, file
\* objects and files stay as they are, and the command given at construction
\* is the command of every run; reading an attribute that was never assigned
\* as an option raises and changes nothing.
C22_OnlyOptionsChange ==
    [][phase = "live" =>
        /\ command_' = command_
        /\ results_' = results_
        /\ options_' = assigned'
        /\ assigned' # assigned =>
             /\ UNCHANGED <<n_runs, mos_h, run_log_h, mos_file, run_log_file,
                            closeOrder, calls, scope>>
             /\ raised' = "none"
        /\ \A a \in ReadNames :
             (a \notin DOMAIN assigned /\ GetAttr(a)) => raised' = "KeyError"
        /\ raised' = "KeyError" =>
             UNCHANGED <<n_runs, mos_h, run_log_h, mos_file, run_log_file,
                         closeOrder, calls, scope, options_, assigned>>
        /\ \A k \in 1..Len(DataLines) : DataLines[k][3] = command_]_vars

C22_Witness ==
    /\ command_ = "simulateModel"
    /\ "command" \in DOMAIN assigned
    /\ assigned["command"] = "linearizeModel"
    /\ Accepted = {1}
    /\ calls[1].assigned = assigned
    /\ DataLines[1][3] = "simulateModel"
    /\ DataLines[1][5] = "command=linearizeModel"
    /\ raised = "KeyError"

----------------------------------------------------------------------------
(* The results lists *)

\* C23: constructing a simulator leaves the list given as results, and the
\* default list of the results parameter, with the entries they had before:
\* the '%x' placeholder is still in them.
C23_ResultsNotModified ==
    /\ lists.defaults = DefaultResults
    /\ lists.caller = lists.passed

====
